---- MODULE Spec2Model ----
(***************************************************************************)
(* Model of btc.py, the command dispatcher of a Counterparty federated     *)
(* node.  One invocation of the script is a short sequential process: the  *)
(* variable pc is its position in main(), the "world" variables are what   *)
(* survives an invocation (settings file, source checkouts, config files,  *)
(* docker volumes, symlinks), and log records, in order, every external    *)
(* effect the invocation has issued so far.                                *)
(***************************************************************************)
EXTENDS Integers, Sequences, FiniteSets, TLC

(* ------------------------------------------------------------------ *)
(* Bounds of the model (inputs only, not program constants)             *)
(* ------------------------------------------------------------------ *)
\* longest explicit service list given to update
MaxServices == 2
\* how many of the profile's host ports may be bound when install probes them
MaxOpenPorts == 1
\* how many clones of one install may fail (os.system status is not inspected)
MaxCloneFailures == 1
\* how many existing checkouts may be in detached-HEAD state during an update
MaxDetached == 1
\* how many times a file under SCRIPTDIR/config is changed from outside
MaxEdits == 2

(* ------------------------------------------------------------------ *)
(* Program constants                                                    *)
(* ------------------------------------------------------------------ *)
PROJECT_NAME == "bitcoinprotocols"

REPOS_BASE == <<"counterparty-lib", "counterparty-cli", "addrindexrs", "xcp-proxy", "http-addrindexrs">>
REPOS_FULL == REPOS_BASE

Profiles == {"base", "base_extbtc", "full"}
Branches == {"master", "develop"}

HOST_PORTS_USED ==
    [ base        |-> <<8332, 18332, 8432, 18432, 4000, 14000, 8097, 18097, 8098, 18098>>,
      base_extbtc |-> <<8432, 18432, 4000, 14000, 8097, 18097, 8098, 18098>>,
      full        |-> <<8332, 18332, 8432, 18432, 4000, 14000, 8097, 18097, 8098, 18098, 80, 443>> ]

\* (mutation of VOLUMES_USED: the chain node's volume is left out of full)
VOLUMES_USED_FullLacksBitcoin ==
    [ base        |-> <<"bitcoin-data", "addrindexrs-data", "counterparty-data">>,
      base_extbtc |-> <<"addrindexrs-data", "counterparty-data">>,
      full        |-> <<"addrindexrs-data", "counterparty-data">> ]

VOLUMES_USED ==
    [ base        |-> <<"bitcoin-data", "addrindexrs-data", "counterparty-data">>,
      base_extbtc |-> <<"addrindexrs-data", "counterparty-data">>,
      full        |-> <<"bitcoin-data", "addrindexrs-data", "counterparty-data">> ]

UPDATE_CHOICES == <<"addrindexrs", "addrindexrs-testnet",
                    "counterparty", "counterparty-testnet", "xcp-proxy", "xcp-proxy-testnet",
                    "http-addrindexrs", "http-addrindexrs-testnet">>
REPARSE_CHOICES == <<"counterparty", "counterparty-testnet">>
ROLLBACK_CHOICES == <<"counterparty", "counterparty-testnet">>
VALIDATE_CHOICES == <<"counterparty", "counterparty-testnet">>
VACUUM_CHOICES == <<"counterparty", "counterparty-testnet">>
SHELL_CHOICES == UPDATE_CHOICES \o <<"mongodb", "redis", "bitcoin", "bitcoin-testnet", "addrindexrs", "addrindexrs-testnet">>

CONFIGCHECK_FILES_BASE_EXTERNAL_BITCOIN ==
    << <<"addrindexrs", "addrindexrs.env.default", "addrindexrs.env">>,
       <<"addrindexrs", "addrindexrs.testnet.env.default", "addrindexrs.testnet.env">>,
       <<"counterparty", "client.conf.default", "client.conf">>,
       <<"counterparty", "client.testnet.conf.default", "client.testnet.conf">>,
       <<"counterparty", "server.conf.default", "server.conf">>,
       <<"counterparty", "server.testnet.conf.default", "server.testnet.conf">> >>
CONFIGCHECK_FILES_BASE ==
    << <<"bitcoin", "bitcoin.conf.default", "bitcoin.conf">>,
       <<"bitcoin", "bitcoin.testnet.conf.default", "bitcoin.testnet.conf">>,
       <<"addrindexrs", "addrindexrs.env.default", "addrindexrs.env">>,
       <<"addrindexrs", "addrindexrs.testnet.env.default", "addrindexrs.testnet.env">>,
       <<"counterparty", "client.conf.default", "client.conf">>,
       <<"counterparty", "client.testnet.conf.default", "client.testnet.conf">>,
       <<"counterparty", "server.conf.default", "server.conf">>,
       <<"counterparty", "server.testnet.conf.default", "server.testnet.conf">> >>
CONFIGCHECK_FILES_FULL == CONFIGCHECK_FILES_BASE
CONFIGCHECK_FILES ==
    [ base_extbtc |-> CONFIGCHECK_FILES_BASE_EXTERNAL_BITCOIN,
      base        |-> CONFIGCHECK_FILES_BASE,
      full        |-> CONFIGCHECK_FILES_BASE ]

\* the *.default templates the repository ships under SCRIPTDIR/config
Templates == { CONFIGCHECK_FILES_BASE[i][2] : i \in 1..Len(CONFIGCHECK_FILES_BASE) }

\* default_config.replace('.default', '')
ActiveOf(template) ==
    LET i == CHOOSE j \in 1..Len(CONFIGCHECK_FILES_BASE) : CONFIGCHECK_FILES_BASE[j][2] = template
    IN CONFIGCHECK_FILES_BASE[i][3]

(* ------------------------------------------------------------------ *)
(* Config files: a line is the sequence of its characters, a file the   *)
(* sequence of its lines                                                *)
(* ------------------------------------------------------------------ *)
WhiteSpace == {" ", "\t"}

\* what every template holds as shipped
DefaultText == << <<"k", "=", "1">> >>

\* what a config file may hold after somebody has changed it
ConfigTexts ==
    { DefaultText,
      << <<"#", "c">>, <<"k", "=", "1">> >>,                \* a comment added
      << <<" ", "#">>, <<"k", "=", "1">>, <<" ", "\t">> >>,  \* an indented comment, a blank line
      << <<"k", "=", "2">> >>,                              \* a value changed
      << <<"k", "=", "1">>, <<"j", "=", "1">> >>,           \* a setting added
      << <<" ", "k", "=", "1">> >>,                         \* the setting indented
      << <<"k", "=", "1", "#">> >>,                         \* a '#' that starts no line
      << <<"#", "k", "=", "1">> >>,                         \* the setting commented out
      << >> }                                               \* an empty file

\* no file at all
NoFiles == [ n \in {} |-> <<>> ]

\* str.strip()
RECURSIVE lstrip(_)
lstrip(x) == IF x # <<>> /\ Head(x) \in WhiteSpace THEN lstrip(Tail(x)) ELSE x
RECURSIVE rstrip(_)
rstrip(x) ==
    IF x # <<>> /\ x[Len(x)] \in WhiteSpace THEN rstrip(SubSeq(x, 1, Len(x) - 1)) ELSE x
strip(x) == rstrip(lstrip(x))

\* (mutation of linejunk_filter: the line is tested as read, not stripped)
linejunk_filter_Unstripped(x) == Len(x) > 0 /\ SubSeq(x, 1, 1) # <<"#">>

\* lambda x: len(x.strip()) > 0 and x.strip()[0:1] != '#'
linejunk_filter(x) == Len(strip(x)) > 0 /\ SubSeq(strip(x), 1, 1) # <<"#">>

\* list(filter(linejunk_filter, f.readlines()))
readlines_filtered(text) == SelectSeq(text, linejunk_filter)

\* difflib.unified_diff(fromlines, tolines, ...): no line at all for equal
\* inputs, else the two file headers and the hunks
unified_diff(fromlines, tolines) ==
    IF fromlines = tolines THEN <<>> ELSE <<"---", "+++", "@@">>

(* ------------------------------------------------------------------ *)
(* Helpers on sequences                                                 *)
(* ------------------------------------------------------------------ *)
Range(s) == { s[i] : i \in 1..Len(s) }

\* Python's "x in list"
In(x, s) == x \in Range(s)

\* sequences over S of length at most n
SeqUpTo(S, n) == UNION { [1..k -> S] : k \in 0..n }

(* ------------------------------------------------------------------ *)
(* Inputs: what the operator types and what the environment answers     *)
(* ------------------------------------------------------------------ *)
\* service names an operator may pass to update: valid mainnet and testnet
\* names, the empty string and a name of no service
UpdateArgNames == {"counterparty", "counterparty-testnet", "xcp-proxy", "", "bogus"}
\* service lists given to the pass-through verbs (blank means all services)
PassThroughLists == { <<>>, <<"counterparty">> }
\* block indexes given to rollback (argparse keeps them as strings)
BlockIndexes == {"450000", "0"}
\* host ports some other process may be listening on when install probes
OpenCandidates == {8332, 18098, 80}
\* the sets of ports found bound by one install
BoundPortSets == { P \in SUBSET OpenCandidates : Cardinality(P) <= MaxOpenPorts }
\* clones that may fail (no network, no access) and checkouts that may be detached
FragileRepos == {"counterparty-cli", "xcp-proxy"}

\* the namespace argparse returns, with every attribute the dispatcher reads
NoArgs ==
    [ command |-> "", config |-> "", branch |-> "", no_pull |-> FALSE,
      services |-> <<>>, service |-> "", block_index |-> "",
      no_restart |-> FALSE, no_cache |-> FALSE ]

InstallArgs ==
    { [NoArgs EXCEPT !.command = "install", !.config = c, !.branch = b, !.no_pull = np] :
        c \in Profiles, b \in Branches, np \in BOOLEAN }
UninstallArgs == { [NoArgs EXCEPT !.command = "uninstall"] }
ServicesArgs ==
    { [NoArgs EXCEPT !.command = v, !.services = l] :
        v \in {"start", "stop", "restart", "logs", "tail"}, l \in PassThroughLists }
MaintenanceArgs ==
    { [NoArgs EXCEPT !.command = v, !.service = s] :
        v \in {"reparse", "validate", "vacuum"}, s \in Range(REPARSE_CHOICES) }
    \cup { [NoArgs EXCEPT !.command = "rollback", !.service = s, !.block_index = n] :
        s \in Range(ROLLBACK_CHOICES), n \in BlockIndexes }
UpdateArgs ==
    { [NoArgs EXCEPT !.command = "update", !.services = l, !.no_restart = nr] :
        l \in SeqUpTo(UpdateArgNames, MaxServices), nr \in BOOLEAN }
OtherArgs ==
    { [NoArgs EXCEPT !.command = v] : v \in {"ps", "configcheck", "docker_clean"} }
    \cup { [NoArgs EXCEPT !.command = v, !.service = "counterparty"] : v \in {"exec", "shell"} }
    \cup { [NoArgs EXCEPT !.command = "rebuild", !.services = l, !.no_pull = np, !.no_cache = nc] :
        l \in PassThroughLists, np \in BOOLEAN, nc \in BOOLEAN }

\* update as one verb among the others: no list, a list of one name of no
\* service, and the list that holds the empty name
UpdateArgsShort == { a \in UpdateArgs : a.services \in {<<>>, <<"bogus">>, <<"">>} }

Invocations ==
    InstallArgs \cup UninstallArgs \cup ServicesArgs \cup MaintenanceArgs
        \cup UpdateArgsShort \cup OtherArgs

(* ------------------------------------------------------------------ *)
(* State                                                                *)
(* ------------------------------------------------------------------ *)
VARIABLES
    \* the world, which outlives an invocation
    settings,          \* the file .btc.config: exists, and its Default section
    repoDirs,          \* the directories that exist under SCRIPTDIR/src
    activeConfigs,     \* the active config files under SCRIPTDIR/config: name -> lines
    defaultConfigs,    \* the *.default templates under SCRIPTDIR/config: name -> lines
    edits,             \* how many times somebody has changed a file under SCRIPTDIR/config
    volumes,           \* the named volumes docker volume inspect finds
    symlinks,          \* the symlinks that exist under SCRIPTDIR/data
    IS_WINDOWS,        \* os.name == 'nt'
    containers,        \* the engine holds the containers bitcoinprotocols_<service>_1
    \* one invocation of main()
    pc,                \* position in main()
    args,              \* parse_args()
    euidRoot,          \* os.geteuid() == 0
    openPorts,         \* the ports is_port_open answers True for
    detached,          \* the checkouts git symbolic-ref names no branch for
    config_existed,
    build_config,
    repo_branch,
    DOCKER_CONFIG_PATH,
    BTC_RELEASE_TAG,
    services_to_update,
    git_has_updated,
    log,               \* the external effects issued so far, in order
    exitCode,          \* -1 while running, else the process exit status
    message,           \* the failure printed before sys.exit(1), if any
    startSettings,     \* history: the settings file as this invocation found it
    lastRemoved,       \* history: the profile the preceding uninstall removed
    startWorld,        \* history: the files and volumes as this invocation found them
    \* a second invocation of main(), running at the same time
    peer               \* its position, arguments, locals and effects

outside == <<defaultConfigs, edits, peer>>
files == <<settings, repoDirs, activeConfigs, volumes, symlinks, IS_WINDOWS, outside>>
world == <<files, containers>>
locals == <<config_existed, build_config, repo_branch, DOCKER_CONFIG_PATH,
            BTC_RELEASE_TAG, services_to_update, git_has_updated>>
inputs == <<args, euidRoot, openPorts, detached>>
history == <<startSettings, lastRemoved, startWorld>>
vars == <<world, inputs, locals, pc, log, exitCode, message, history>>

NoSettings == [exists |-> FALSE, config |-> "", branch |-> ""]

\* one external effect
Event(kind, verb, mode, target, port) ==
    [ kind |-> kind, verb |-> verb, mode |-> mode, target |-> target, port |-> port,
      file |-> "", tag |-> "" ]

\* run_compose_cmd(cmd): docker-compose -f DOCKER_CONFIG_PATH -p PROJECT_NAME cmd,
\* with BTC_RELEASE_TAG in the environment
run_compose_cmd(verb, mode, target) ==
    [ Event("compose", verb, mode, target, 0)
        EXCEPT !.file = DOCKER_CONFIG_PATH, !.tag = BTC_RELEASE_TAG ]

\* (mutation of is_port_open: the result of connect_ex is compared with the
\* wrong value, so no port is ever seen as open)
is_port_open_Never(port) == FALSE

\* is_port_open(port)
is_port_open(port) == port \in openPorts

\* the messages printed before sys.exit(1)
MSG_ROOT == "Please run this script as a non-root user."
MSG_NO_CONFIG == "config file does not exist. Please run the 'install' command first"
MSG_ALREADY == "Cannot install, as it appears a configuration already exists."
MSG_PORT == "Cannot install, as it appears a process is already listening on host port"
MSG_INVALID == "Invalid service"
MSG_DETACHED == "Unknown service git branch name, or repo in detached state"
MSG_NO_CONTAINER == "Container doesn't seem to exist"

\* sys.exit(code) with the message printed before it
Exit(code, msg) ==
    /\ pc' = "done"
    /\ exitCode' = code
    /\ message' = msg

\* what an invocation finds on disk and in the engine, and the value the
\* history holds while no invocation runs
Snapshot ==
    [ repoDirs |-> repoDirs, activeConfigs |-> activeConfigs,
      defaultConfigs |-> defaultConfigs, volumes |-> volumes, symlinks |-> symlinks,
      containers |-> containers ]
NoWorld ==
    [ repoDirs |-> {}, activeConfigs |-> NoFiles, defaultConfigs |-> NoFiles,
      volumes |-> {}, symlinks |-> {}, containers |-> FALSE ]

\* no second process
NoPeer ==
    [ pc |-> "idle", args |-> NoArgs, config_existed |-> FALSE, build_config |-> "",
      repo_branch |-> "", DOCKER_CONFIG_PATH |-> <<>>, BTC_RELEASE_TAG |-> "",
      repos |-> <<>>, log |-> <<>>, exitCode |-> -1, message |-> "",
      replaced |-> NoSettings ]

Init ==
    /\ settings = NoSettings
    /\ repoDirs = {}
    /\ activeConfigs = NoFiles
    /\ defaultConfigs = [ t \in Templates |-> DefaultText ]
    /\ edits = 0
    /\ volumes = {}
    /\ symlinks = {}
    /\ IS_WINDOWS \in BOOLEAN
    /\ containers = FALSE
    /\ pc = "idle"
    /\ args = NoArgs
    /\ euidRoot = FALSE
    /\ openPorts = {}
    /\ detached = {}
    /\ config_existed = FALSE
    /\ build_config = ""
    /\ repo_branch = ""
    /\ DOCKER_CONFIG_PATH = <<>>
    /\ BTC_RELEASE_TAG = ""
    /\ services_to_update = <<>>
    /\ git_has_updated = <<>>
    /\ log = <<>>
    /\ exitCode = -1
    /\ message = ""
    /\ startSettings = NoSettings
    /\ lastRemoved = ""
    /\ startWorld = NoWorld
    /\ peer = NoPeer

(* ------------------------------------------------------------------ *)
(* main(): start-up                                                     *)
(* ------------------------------------------------------------------ *)
\* A new process: setup_env() and parse_args().  The environment's answers
\* for this invocation (bound ports, detached checkouts) are fixed here.
StartOf(a, root, bound) ==
    /\ args' = a
    /\ euidRoot' = root
    /\ openPorts' = (IF a.command = "install" /\ ~(~IS_WINDOWS /\ root) THEN bound ELSE {})
    /\ detached' \in
         IF a.command = "update" /\ ~(~IS_WINDOWS /\ root)
         THEN { D \in SUBSET (repoDirs \cap (FragileRepos \cup {""})) :
                    Cardinality(D) <= MaxDetached }
         ELSE { {} }
    /\ IF ~IS_WINDOWS /\ root
       THEN Exit(1, MSG_ROOT)
       ELSE /\ pc' = "main"
            /\ exitCode' = -1
            /\ message' = ""
    /\ startSettings' = settings
    /\ startWorld' = Snapshot
    /\ UNCHANGED <<world, locals, log, lastRemoved>>

\* any command line, as root or not (os.geteuid() is not called on Windows)
Start ==
    /\ pc = "idle"
    /\ \E a \in Invocations, root \in (IF IS_WINDOWS THEN {FALSE} ELSE BOOLEAN) :
          \E bound \in BoundPortSets : StartOf(a, root, bound)

\* The process is gone: nothing of it remains but the world it left.
Return ==
    /\ pc = "done"
    /\ pc' = "idle"
    /\ args' = NoArgs
    /\ euidRoot' = FALSE
    /\ openPorts' = {}
    /\ detached' = {}
    /\ config_existed' = FALSE
    /\ build_config' = ""
    /\ repo_branch' = ""
    /\ DOCKER_CONFIG_PATH' = <<>>
    /\ BTC_RELEASE_TAG' = ""
    /\ services_to_update' = <<>>
    /\ git_has_updated' = <<>>
    /\ log' = <<>>
    /\ exitCode' = -1
    /\ message' = ""
    /\ startSettings' = NoSettings
    /\ startWorld' = NoWorld
    /\ lastRemoved' = IF args.command = "uninstall" THEN lastRemoved ELSE ""
    /\ UNCHANGED world

\* (mutation of DockerClean: the utility command is held to the rule of the
\* other commands, so it refuses when there is no settings file)
DockerClean_NeedsConfig ==
    /\ pc = "main"
    /\ args.command = "docker_clean"
    /\ IF ~settings.exists
       THEN /\ Exit(1, MSG_NO_CONFIG)
            /\ UNCHANGED <<log, containers>>
       ELSE /\ log' = log \o << Event("docker", "rm", <<>>, <<>>, 0),
                                 Event("docker", "rmi", <<>>, <<>>, 0) >>
            /\ containers' \in {containers, FALSE}
            /\ Exit(1, "")
    /\ UNCHANGED <<files, inputs, locals, history>>

\* docker_clean: remove every container and image, then sys.exit(1).  docker rm
\* removes the containers that are stopped and refuses those that run.
DockerClean ==
    /\ pc = "main"
    /\ args.command = "docker_clean"
    /\ log' = log \o << Event("docker", "rm", <<>>, <<>>, 0),
                        Event("docker", "rmi", <<>>, <<>>, 0) >>
    /\ containers' \in {containers, FALSE}
    /\ Exit(1, "")
    /\ UNCHANGED <<files, inputs, locals, history>>

\* (mutation of RequiresConfig: uninstall is let through as well)
RequiresConfig_Lax(command) == command \notin {"install", "uninstall"}

\* args.command != 'install'
RequiresConfig(command) == command # "install"

\* if config doesn't exist, only the 'install' command may be run
CheckConfig ==
    /\ pc = "main"
    /\ args.command # "docker_clean"
    /\ config_existed' = settings.exists
    /\ IF ~settings.exists /\ RequiresConfig(args.command)
       THEN Exit(1, MSG_NO_CONFIG)
       ELSE /\ pc' = IF settings.exists THEN "load" ELSE "write"
            /\ UNCHANGED <<exitCode, message>>
    /\ UNCHANGED <<world, inputs, build_config, repo_branch, DOCKER_CONFIG_PATH,
                   BTC_RELEASE_TAG, services_to_update, git_has_updated, log, history>>

\* write_config(config) with the Default section set from the arguments
write_config(branch, config) == [exists |-> TRUE, config |-> config, branch |-> branch]

WriteConfig ==
    /\ pc = "write"
    /\ settings' = write_config(args.branch, args.config)
    /\ log' = Append(log, Event("write_config", "", <<>>, <<>>, 0))
    /\ pc' = "load"
    /\ UNCHANGED <<repoDirs, activeConfigs, volumes, symlinks, IS_WINDOWS, outside, containers, inputs, locals,
                   exitCode, message, history>>

\* "docker-compose.{}.yml".format(build_config)
docker_config_file(config) == <<"docker-compose.", config, ".yml">>

\* (mutation of release_tag: the branch name is used as it is)
release_tag_Branch(branch) == branch

\* 'latest' if repo_branch == 'master' else repo_branch
release_tag(branch) == IF branch = "master" THEN "latest" ELSE branch

\* load and read config
LoadConfig ==
    /\ pc = "load"
    /\ IF ~settings.exists
       THEN \* assert os.path.exists(BTC_CONFIG_PATH)
            /\ Exit(1, "AssertionError")
            /\ UNCHANGED <<build_config, repo_branch, DOCKER_CONFIG_PATH, BTC_RELEASE_TAG>>
       ELSE /\ build_config' = settings.config
            /\ DOCKER_CONFIG_PATH' = docker_config_file(settings.config)
            /\ repo_branch' = settings.branch
            /\ BTC_RELEASE_TAG' = release_tag(settings.branch)
            /\ pc' = args.command
            /\ UNCHANGED <<exitCode, message>>
    /\ UNCHANGED <<world, inputs, config_existed, services_to_update, git_has_updated,
                   log, history>>

(* ------------------------------------------------------------------ *)
(* install                                                              *)
(* ------------------------------------------------------------------ *)
\* the probes of "for port in ports: if is_port_open(port): exit": every port
\* up to and including the first one that is open
RECURSIVE PortProbes(_)
PortProbes(ports) ==
    IF ports = <<>> THEN <<>>
    ELSE <<Event("is_port_open", "", <<>>, <<>>, Head(ports))>>
         \o (IF is_port_open(Head(ports)) THEN <<>> ELSE PortProbes(Tail(ports)))

\* (mutation of InstallRefused: the check is dropped)
InstallRefused_Never(existed) == FALSE

\* if config_existed: cannot install
InstallRefused(existed) == existed

\* refuse when a configuration existed, then check port usage
InstallCheck ==
    /\ pc = "install"
    /\ IF InstallRefused(config_existed)
       THEN /\ Exit(1, MSG_ALREADY)
            /\ UNCHANGED log
       ELSE /\ log' = log \o PortProbes(HOST_PORTS_USED[build_config])
            /\ IF \E i \in 1..Len(HOST_PORTS_USED[build_config]) :
                     is_port_open(HOST_PORTS_USED[build_config][i])
               THEN Exit(1, MSG_PORT)
               ELSE /\ pc' = "install_clone"
                    /\ UNCHANGED <<exitCode, message>>
    /\ UNCHANGED <<world, inputs, locals, history>>

\* (mutation of GitClone: the default branch is cloned whatever was asked for)
GitClone_Master(repo, branch) == Event("git", "clone", <<"master">>, <<repo>>, 0)

\* git clone -b branch url SCRIPTDIR/src/repo
GitClone(repo, branch) == Event("git", "clone", <<branch>>, <<repo>>, 0)

\* (mutation of CloneMissing: every source tree is cloned, present or not)
CloneMissing_All(repos, existing, branch) ==
    [ i \in 1..Len(repos) |-> GitClone(repos[i], branch) ]

RECURSIVE CloneMissing(_, _, _)
CloneMissing(repos, existing, branch) ==
    IF repos = <<>> THEN <<>>
    ELSE (IF Head(repos) \notin existing THEN <<GitClone(Head(repos), branch)>> ELSE <<>>)
         \o CloneMissing(Tail(repos), existing, branch)

\* check out the necessary source trees: only those whose directory is absent.
\* A clone that fails leaves no directory, and its status is not looked at.
InstallClone ==
    /\ pc = "install_clone"
    /\ LET REPOS == IF build_config = "base" THEN REPOS_BASE ELSE REPOS_FULL
           missing == Range(REPOS) \ repoDirs
       IN /\ log' = log \o CloneMissing(REPOS, repoDirs, repo_branch)
          /\ \E failed \in SUBSET (missing \cap FragileRepos) :
                /\ Cardinality(failed) <= MaxCloneFailures
                /\ repoDirs' = repoDirs \cup (missing \ failed)
                                 \cup (IF missing \ failed # {} THEN {""} ELSE {})
    /\ pc' = "install_pull"
    /\ UNCHANGED <<settings, activeConfigs, volumes, symlinks, IS_WINDOWS, outside, containers, inputs, locals,
                   exitCode, message, history>>

\* make sure we have the newest image for each service
InstallPull ==
    /\ pc = "install_pull"
    /\ log' = IF ~args.no_pull
              THEN Append(log, run_compose_cmd("pull", <<"--ignore-pull-failures">>, <<>>))
              ELSE log
    /\ pc' = "install_configs"
    /\ UNCHANGED <<world, inputs, locals, exitCode, message, history>>

\* (mutation of ToCopy: every template is copied, the active file existing or not)
ToCopy_All(defaults, actives) == DOMAIN defaults

\* the templates glob finds whose active version does not exist
ToCopy(defaults, actives) == { t \in DOMAIN defaults : ActiveOf(t) \notin DOMAIN actives }

\* copy over the configs from .default to active versions, if they don't already exist
InstallConfigs ==
    /\ pc = "install_configs"
    /\ LET absent == ToCopy(defaultConfigs, activeConfigs)
           created == { ActiveOf(t) : t \in absent }
       IN /\ activeConfigs' =
                [ n \in DOMAIN activeConfigs \cup created |->
                    IF n \in created
                    THEN defaultConfigs[CHOOSE t \in absent : ActiveOf(t) = n]
                    ELSE activeConfigs[n] ]
          /\ log' = IF absent # {}
                    THEN Append(log, Event("copy2", "", <<>>, <<>>, Cardinality(absent)))
                    ELSE log
    /\ pc' = "install_symlinks"
    /\ UNCHANGED <<settings, repoDirs, volumes, symlinks, IS_WINDOWS, outside, containers, inputs, locals,
                   exitCode, message, history>>

\* get_docker_volume_path(volume_name): None when the volume does not exist
get_docker_volume_path(volume) == IF volume \in volumes THEN <<volume>> ELSE <<>>

\* volume.replace('-data', ''): the name of the link under SCRIPTDIR/data
symlink_name(volume) ==
    CASE volume = "bitcoin-data" -> "bitcoin"
      [] volume = "addrindexrs-data" -> "addrindexrs"
      [] volume = "counterparty-data" -> "counterparty"
      [] OTHER -> volume

\* the links install makes: one for each volume docker knows whose link
\* path does not exist yet
RECURSIVE Linkable(_)
Linkable(vols) ==
    IF vols = <<>> THEN <<>>
    ELSE (IF get_docker_volume_path(Head(vols)) # <<>>
                /\ symlink_name(Head(vols)) \notin symlinks
          THEN <<symlink_name(Head(vols))>> ELSE <<>>) \o Linkable(Tail(vols))

\* create symlinks to the data volumes (for ease of use)
InstallSymlinks ==
    /\ pc = "install_symlinks"
    /\ LET new == IF IS_WINDOWS THEN <<>> ELSE Linkable(VOLUMES_USED[build_config])
       IN /\ symlinks' = symlinks \cup Range(new)
          /\ log' = log \o [ i \in 1..Len(new) |-> Event("symlink", "", <<>>, <<new[i]>>, 0) ]
    /\ pc' = "install_up"
    /\ UNCHANGED <<settings, repoDirs, activeConfigs, volumes, IS_WINDOWS, outside, containers, inputs, locals,
                   exitCode, message, history>>

\* launch.  When the engine succeeds it creates the profile's named volumes
\* and the containers; when it fails it leaves both as they were.  The status
\* is not looked at.
InstallUp ==
    /\ pc = "install_up"
    /\ log' = Append(log, run_compose_cmd("up", <<"-d">>, <<>>))
    /\ \E ok \in BOOLEAN :
          /\ volumes' = IF ok THEN volumes \cup Range(VOLUMES_USED[build_config]) ELSE volumes
          /\ containers' = (ok \/ containers)
    /\ Exit(0, "")
    /\ UNCHANGED <<settings, repoDirs, activeConfigs, symlinks, IS_WINDOWS, outside, inputs,
                   locals, history>>

(* ------------------------------------------------------------------ *)
(* uninstall                                                            *)
(* ------------------------------------------------------------------ *)
\* (mutation of UninstallDown: a tear-down that leaves containers ends the process)
UninstallDown_Checked ==
    /\ pc = "uninstall"
    /\ log' = Append(log, run_compose_cmd("down", <<>>, <<>>))
    /\ \E ok \in BOOLEAN :
          /\ containers' = (containers /\ ~ok)
          /\ IF containers /\ ~ok
             THEN Exit(1, "")
             ELSE /\ pc' = "uninstall_remove"
                  /\ UNCHANGED <<exitCode, message>>
    /\ UNCHANGED <<files, inputs, locals, history>>

\* tear down.  When the engine succeeds the containers are gone; when it
\* fails they stay.  The status run_compose_cmd returns is not looked at.
UninstallDown ==
    /\ pc = "uninstall"
    /\ log' = Append(log, run_compose_cmd("down", <<>>, <<>>))
    /\ \E ok \in BOOLEAN : containers' = (containers /\ ~ok)
    /\ pc' = "uninstall_remove"
    /\ UNCHANGED <<files, inputs, locals, exitCode, message, history>>

\* (mutation of UninstallRemove: the settings file is left in place)
UninstallRemove_KeepsFile ==
    /\ pc = "uninstall_remove"
    /\ lastRemoved' = settings.config
    /\ log' = Append(log, Event("remove_config", "", <<>>, <<>>, 0))
    /\ Exit(0, "")
    /\ UNCHANGED <<world, inputs, locals, startSettings, startWorld>>

\* os.remove(BTC_CONFIG_PATH)
UninstallRemove ==
    /\ pc = "uninstall_remove"
    /\ IF settings.exists
       THEN /\ settings' = NoSettings
            /\ lastRemoved' = settings.config
            /\ log' = Append(log, Event("remove_config", "", <<>>, <<>>, 0))
            /\ Exit(0, "")
       ELSE /\ Exit(1, "FileNotFoundError")
            /\ UNCHANGED <<settings, lastRemoved, log>>
    /\ UNCHANGED <<repoDirs, activeConfigs, volumes, symlinks, IS_WINDOWS, outside, containers, inputs, locals,
                   startSettings, startWorld>>

(* ------------------------------------------------------------------ *)
(* pass-through verbs                                                   *)
(* ------------------------------------------------------------------ *)
\* start, stop, restart: "<verb> " + ' '.join(args.services)
StartStopRestart ==
    /\ pc \in {"start", "stop", "restart"}
    /\ log' = Append(log, run_compose_cmd(args.command, <<>>, args.services))
    /\ Exit(0, "")
    /\ UNCHANGED <<world, inputs, locals, history>>

Tail_ ==
    /\ pc = "tail"
    /\ log' = Append(log, run_compose_cmd("logs", <<"-f", "--tail">>, args.services))
    /\ Exit(0, "")
    /\ UNCHANGED <<world, inputs, locals, history>>

Logs ==
    /\ pc = "logs"
    /\ log' = Append(log, run_compose_cmd("logs", <<>>, args.services))
    /\ Exit(0, "")
    /\ UNCHANGED <<world, inputs, locals, history>>

Ps ==
    /\ pc = "ps"
    /\ log' = Append(log, run_compose_cmd("ps", <<>>, <<>>))
    /\ Exit(0, "")
    /\ UNCHANGED <<world, inputs, locals, history>>

\* docker exec -i -t bitcoinprotocols_<service>_1 bash -c cmd
Exec ==
    /\ pc = "exec"
    /\ log' = Append(log, Event("docker", "exec", <<"bash", "-c">>, <<args.service>>, 0))
    /\ Exit(0, "")
    /\ UNCHANGED <<world, inputs, locals, history>>

\* is_container_running(service): True, False, or docker inspect finds no
\* such container
ContainerStates == IF containers THEN {"running", "stopped"} ELSE {"absent"}

Shell ==
    /\ pc = "shell"
    /\ \E container \in ContainerStates :
        CASE container = "absent" ->
                /\ Exit(1, MSG_NO_CONTAINER)
                /\ UNCHANGED log
          [] container = "running" ->
                /\ log' = Append(log, Event("docker", "exec", <<"bash">>, <<args.service>>, 0))
                /\ Exit(0, "")
          [] container = "stopped" ->
                /\ log' = Append(log, run_compose_cmd("run",
                              <<"--no-deps", "--rm", "--entrypoint", "bash">>, <<args.service>>))
                /\ Exit(0, "")
    /\ UNCHANGED <<world, inputs, locals, history>>

Rebuild ==
    /\ pc = "rebuild"
    /\ log' = log
         \o (IF ~args.no_pull
             THEN <<run_compose_cmd("pull", <<"--ignore-pull-failures">>, args.services)>>
             ELSE <<>>)
         \o (IF args.no_cache
             THEN <<run_compose_cmd("build", <<"--no-cache">>, args.services)>>
             ELSE <<>>)
         \o <<run_compose_cmd("up", <<"-d", "--build", "--force-recreate", "--no-deps">>,
                              args.services)>>
    /\ \E ok \in BOOLEAN : containers' = (ok \/ containers)
    /\ Exit(0, "")
    /\ UNCHANGED <<files, inputs, locals, history>>

(* ------------------------------------------------------------------ *)
(* maintenance verbs                                                    *)
(* ------------------------------------------------------------------ *)
\* (mutation of Maintenance: the one-shot run is issued before the stop)
Maintenance_RunFirst(mode) ==
    /\ log' = log \o << run_compose_cmd("run", mode, <<args.service>>),
                        run_compose_cmd("stop", <<>>, <<args.service>>) >>
    /\ Exit(0, "")
    /\ UNCHANGED <<world, inputs, locals, history>>

\* stop the service, then run it once with COMMAND set
Maintenance(mode) ==
    /\ log' = log \o << run_compose_cmd("stop", <<>>, <<args.service>>),
                        run_compose_cmd("run", mode, <<args.service>>) >>
    /\ Exit(0, "")
    /\ UNCHANGED <<world, inputs, locals, history>>

Reparse == pc = "reparse" /\ Maintenance(<<"reparse">>)

Rollback == pc = "rollback" /\ Maintenance(<<"rollback", args.block_index>>)

Validate == pc = "validate" /\ Maintenance(<<"checkdb">>)

Vacuum == pc = "vacuum" /\ Maintenance(<<"vacuum">>)

(* ------------------------------------------------------------------ *)
(* update                                                               *)
(* ------------------------------------------------------------------ *)
\* service.replace('-testnet', '')
replace_testnet(service) ==
    CASE service = "addrindexrs-testnet" -> "addrindexrs"
      [] service = "counterparty-testnet" -> "counterparty"
      [] service = "xcp-proxy-testnet" -> "xcp-proxy"
      [] service = "http-addrindexrs-testnet" -> "http-addrindexrs"
      [] OTHER -> service

\* the names of an explicit list are checked, except for the list ['']
UpdateRejects(services) ==
    /\ services # <<"">>
    /\ \E i \in 1..Len(services) : ~In(services[i], UPDATE_CHOICES)

UpdateValidate ==
    /\ pc = "update"
    /\ IF UpdateRejects(args.services)
       THEN /\ Exit(1, MSG_INVALID)
            /\ UNCHANGED <<services_to_update, git_has_updated>>
       ELSE /\ services_to_update' =
                    IF Len(args.services) = 0 THEN UPDATE_CHOICES ELSE args.services
            /\ git_has_updated' = <<>>
            /\ pc' = "update_loop"
            /\ UNCHANGED <<exitCode, message>>
    /\ UNCHANGED <<world, inputs, config_existed, build_config, repo_branch,
                   DOCKER_CONFIG_PATH, BTC_RELEASE_TAG, log, history>>

\* the directories under SCRIPTDIR/src that hold a base service's sources
service_dirs(service_base) ==
    IF service_base = "counterparty"
    THEN <<"counterparty-lib", "counterparty-cli">>
    ELSE <<service_base>>

\* git symbolic-ref --short -q HEAD, in the checkout
GitBranch(dir) == Event("git", "symbolic-ref", <<>>, <<dir>>, 0)
\* git pull origin <branch>, in the checkout
GitPull(dir, service_base) == Event("git", "pull", <<service_base>>, <<dir>>, 0)
\* remove the *.egg-info directories of the checkout
RemoveEggs(dir) == Event("rm", "egg-info", <<>>, <<dir>>, 0)

\* (mutation of OnDetached: the branch is checked only after the pull)
OnDetached_PullsFirst(dir, service_base) ==
    [events |-> <<GitBranch(dir), GitPull(dir, service_base)>>, exited |-> TRUE]

\* a checkout that names no branch: sys.exit(1) right after the lookup
OnDetached(dir, service_base) == [events |-> <<GitBranch(dir)>>, exited |-> TRUE]

\* the body of "for service_dir in service_dirs": the effects issued, and
\* whether it ended in sys.exit(1) on a checkout that names no branch
RECURSIVE UpdateDirs(_, _)
UpdateDirs(dirs, service_base) ==
    IF dirs = <<>> THEN [events |-> <<>>, exited |-> FALSE]
    ELSE IF Head(dirs) \notin repoDirs THEN UpdateDirs(Tail(dirs), service_base)
    ELSE IF Head(dirs) \in detached
         THEN OnDetached(Head(dirs), service_base)
    ELSE LET rest == UpdateDirs(Tail(dirs), service_base)
         IN [ events |-> <<GitBranch(Head(dirs)), GitPull(Head(dirs), service_base)>>
                         \o (IF service_base \in {"counterparty", "armory-utxsvr"}
                             THEN <<RemoveEggs(Head(dirs))>> ELSE <<>>)
                         \o rest.events,
              exited |-> rest.exited ]

\* (mutation of AlreadyUpdated: git_has_updated is never consulted)
AlreadyUpdated_Never(service_base, updated) == FALSE

\* service_base in git_has_updated
AlreadyUpdated(service_base, updated) == In(service_base, updated)

\* (mutation of UpdateStep: a service is restarted only when its sources were
\* looked at in this pass)
UpdateStep_RestartsFresh ==
    /\ pc = "update_loop"
    /\ services_to_update # <<>>
    /\ LET service == Head(services_to_update)
           service_base == replace_testnet(service)
           fresh == ~AlreadyUpdated(service_base, git_has_updated)
           git == IF fresh THEN UpdateDirs(service_dirs(service_base), service_base)
                  ELSE [events |-> <<>>, exited |-> FALSE]
       IN /\ services_to_update' = Tail(services_to_update)
          /\ git_has_updated' = IF fresh THEN Append(git_has_updated, service_base)
                                ELSE git_has_updated
          /\ IF git.exited
             THEN /\ log' = log \o git.events
                  /\ Exit(1, MSG_DETACHED)
             ELSE /\ log' = log \o git.events
                        \o (IF ~args.no_restart /\ fresh
                            THEN <<run_compose_cmd("restart", <<>>, <<service>>)>>
                            ELSE <<>>)
                  /\ IF Tail(services_to_update) = <<>>
                     THEN Exit(0, "")
                     ELSE UNCHANGED <<pc, exitCode, message>>
    /\ UNCHANGED <<world, inputs, config_existed, build_config, repo_branch,
                   DOCKER_CONFIG_PATH, BTC_RELEASE_TAG, history>>

\* one pass of "while services_to_update"
UpdateStep ==
    /\ pc = "update_loop"
    /\ services_to_update # <<>>
    /\ LET service == Head(services_to_update)
           service_base == replace_testnet(service)
           fresh == ~AlreadyUpdated(service_base, git_has_updated)
           git == IF fresh THEN UpdateDirs(service_dirs(service_base), service_base)
                  ELSE [events |-> <<>>, exited |-> FALSE]
       IN /\ services_to_update' = Tail(services_to_update)
          /\ git_has_updated' = IF fresh THEN Append(git_has_updated, service_base)
                                ELSE git_has_updated
          /\ IF git.exited
             THEN /\ log' = log \o git.events
                  /\ Exit(1, MSG_DETACHED)
             ELSE /\ log' = log \o git.events
                        \o (IF ~args.no_restart
                            THEN <<run_compose_cmd("restart", <<>>, <<service>>)>>
                            ELSE <<>>)
                  /\ IF Tail(services_to_update) = <<>>
                     THEN Exit(0, "")
                     ELSE UNCHANGED <<pc, exitCode, message>>
    /\ UNCHANGED <<world, inputs, config_existed, build_config, repo_branch,
                   DOCKER_CONFIG_PATH, BTC_RELEASE_TAG, history>>

(* ------------------------------------------------------------------ *)
(* configcheck                                                          *)
(* ------------------------------------------------------------------ *)
\* config_check(build_config): one report per config pair, nothing written
config_check(config) ==
    [ i \in 1..Len(CONFIGCHECK_FILES[config]) |->
        LET fromfile == CONFIGCHECK_FILES[config][i][2]
            tofile == CONFIGCHECK_FILES[config][i][3]
        IN IF fromfile \notin DOMAIN defaultConfigs
           THEN Event("report", "not found", <<>>, <<fromfile>>, 0)
           ELSE IF tofile \notin DOMAIN activeConfigs
           THEN Event("report", "not found", <<>>, <<tofile>>, 0)
           ELSE LET difflines == unified_diff(readlines_filtered(defaultConfigs[fromfile]),
                                              readlines_filtered(activeConfigs[tofile]))
                IN IF Len(difflines) > 0
                   THEN Event("report", "differs", difflines, <<tofile>>, 0)
                   ELSE Event("report", "OK", <<>>, <<tofile>>, 0) ]

ConfigCheck ==
    /\ pc = "configcheck"
    /\ log' = log \o config_check(build_config)
    /\ Exit(0, "")
    /\ UNCHANGED <<world, inputs, locals, history>>

(* ------------------------------------------------------------------ *)
(* Specification                                                        *)
(* ------------------------------------------------------------------ *)
Next ==
    \/ Start
    \/ Return
    \/ DockerClean
    \/ CheckConfig
    \/ WriteConfig
    \/ LoadConfig
    \/ InstallCheck
    \/ InstallClone
    \/ InstallPull
    \/ InstallConfigs
    \/ InstallSymlinks
    \/ InstallUp
    \/ UninstallDown
    \/ UninstallRemove
    \/ StartStopRestart
    \/ Tail_
    \/ Logs
    \/ Ps
    \/ Exec
    \/ Shell
    \/ Rebuild
    \/ Reparse
    \/ Rollback
    \/ Validate
    \/ Vacuum
    \/ UpdateValidate
    \/ UpdateStep
    \/ ConfigCheck

Spec == Init /\ [][Next]_vars

(* ------------------------------------------------------------------ *)
(* update with every list of service names, on what install left        *)
(* ------------------------------------------------------------------ *)
UpdateInvocations ==
    { [NoArgs EXCEPT !.command = "install", !.config = "base", !.branch = b] : b \in Branches }
    \cup UninstallArgs \cup UpdateArgs

StartUpdate == pc = "idle" /\ \E a \in UpdateInvocations : StartOf(a, FALSE, {})

NextUpdate ==
    \/ StartUpdate
    \/ Return
    \/ CheckConfig
    \/ WriteConfig
    \/ LoadConfig
    \/ InstallCheck
    \/ InstallClone
    \/ InstallPull
    \/ InstallConfigs
    \/ InstallSymlinks
    \/ InstallUp
    \/ UninstallDown
    \/ UninstallRemove
    \/ UpdateValidate
    \/ UpdateStep

SpecUpdate == Init /\ [][NextUpdate]_vars

(* ------------------------------------------------------------------ *)
(* The config files over the life of an installation: install,          *)
(* uninstall and configcheck, while between two invocations the         *)
(* operator edits or deletes an active file and a pull of the tool's    *)
(* own repository changes or deletes a template                         *)
(* ------------------------------------------------------------------ *)
ConfigInvocations ==
    { [NoArgs EXCEPT !.command = "install", !.config = c, !.branch = "master"] :
        c \in {"base", "base_extbtc"} }
    \cup { [NoArgs EXCEPT !.command = v] : v \in {"uninstall", "configcheck"} }

StartConfig == pc = "idle" /\ \E a \in ConfigInvocations : StartOf(a, FALSE, {})

\* the files somebody touches: one config pair
EditedTemplates == {"client.conf.default"}
EditedConfigs == { ActiveOf(t) : t \in EditedTemplates }

EditActive ==
    /\ pc = "idle" /\ edits < MaxEdits
    /\ \E n \in DOMAIN activeConfigs \cap EditedConfigs, text \in ConfigTexts :
          /\ text # activeConfigs[n]
          /\ activeConfigs' = [activeConfigs EXCEPT ![n] = text]
    /\ edits' = edits + 1
    /\ UNCHANGED <<settings, repoDirs, volumes, symlinks, IS_WINDOWS, containers, defaultConfigs,
                   peer, inputs, locals, pc, log, exitCode, message, history>>

RemoveActive ==
    /\ pc = "idle" /\ edits < MaxEdits
    /\ \E n \in DOMAIN activeConfigs \cap EditedConfigs :
          activeConfigs' = [ m \in DOMAIN activeConfigs \ {n} |-> activeConfigs[m] ]
    /\ edits' = edits + 1
    /\ UNCHANGED <<settings, repoDirs, volumes, symlinks, IS_WINDOWS, containers, defaultConfigs,
                   peer, inputs, locals, pc, log, exitCode, message, history>>

ChangeTemplate ==
    /\ pc = "idle" /\ edits < MaxEdits
    /\ \E t \in DOMAIN defaultConfigs \cap EditedTemplates, text \in ConfigTexts :
          /\ text # defaultConfigs[t]
          /\ defaultConfigs' = [defaultConfigs EXCEPT ![t] = text]
    /\ edits' = edits + 1
    /\ UNCHANGED <<settings, repoDirs, activeConfigs, volumes, symlinks, IS_WINDOWS,
                   containers, peer, inputs, locals, pc, log, exitCode, message, history>>

RemoveTemplate ==
    /\ pc = "idle" /\ edits < MaxEdits
    /\ \E t \in DOMAIN defaultConfigs \cap EditedTemplates :
          defaultConfigs' = [ m \in DOMAIN defaultConfigs \ {t} |-> defaultConfigs[m] ]
    /\ edits' = edits + 1
    /\ UNCHANGED <<settings, repoDirs, activeConfigs, volumes, symlinks, IS_WINDOWS,
                   containers, peer, inputs, locals, pc, log, exitCode, message, history>>

NextConfig ==
    \/ StartConfig
    \/ Return
    \/ CheckConfig
    \/ WriteConfig
    \/ LoadConfig
    \/ InstallCheck
    \/ InstallClone
    \/ InstallPull
    \/ InstallConfigs
    \/ InstallSymlinks
    \/ InstallUp
    \/ UninstallDown
    \/ UninstallRemove
    \/ ConfigCheck
    \/ EditActive
    \/ RemoveActive
    \/ ChangeTemplate
    \/ RemoveTemplate

SpecConfig == Init /\ [][NextConfig]_vars

(* ------------------------------------------------------------------ *)
(* two installs at once: a second process runs main() for an install    *)
(* while the first one does.  Each step of the second process is the    *)
(* step of the first one, on its own locals.  Its clone loop is taken   *)
(* one repository at a time, so that the two loops interleave.          *)
(* ------------------------------------------------------------------ *)
\* the first process installs one profile, the second one another profile
\* or another branch
RaceInvocations ==
    { [NoArgs EXCEPT !.command = "install", !.config = "base", !.branch = "master"] }
PeerInvocations ==
    { [NoArgs EXCEPT !.command = "install", !.config = c, !.branch = b] :
        c \in {"base", "base_extbtc"}, b \in Branches } \ RaceInvocations

StartRace == pc = "idle" /\ \E a \in RaceInvocations : StartOf(a, FALSE, {})

peerWorld == <<repoDirs, activeConfigs, volumes, symlinks, containers>>
self == <<inputs, locals, pc, log, exitCode, message, history>>

\* setup_env() and parse_args() of the second process, not root
PeerStart ==
    /\ peer.pc = "idle"
    /\ \E a \in PeerInvocations : peer' = [NoPeer EXCEPT !.pc = "main", !.args = a]
    /\ UNCHANGED <<settings, peerWorld, IS_WINDOWS, defaultConfigs, edits, self>>

PeerReturn ==
    /\ peer.pc = "done"
    /\ peer' = NoPeer
    /\ UNCHANGED <<settings, peerWorld, IS_WINDOWS, defaultConfigs, edits, self>>

\* config_existed = os.path.exists(BTC_CONFIG_PATH); the command is install
PeerCheckConfig ==
    /\ peer.pc = "main"
    /\ peer' = [peer EXCEPT !.config_existed = settings.exists,
                            !.pc = IF settings.exists THEN "load" ELSE "write"]
    /\ UNCHANGED <<settings, peerWorld, IS_WINDOWS, defaultConfigs, edits, self>>

\* write default config: the file is written whatever it holds by now
PeerWriteConfig ==
    /\ peer.pc = "write"
    /\ settings' = write_config(peer.args.branch, peer.args.config)
    /\ peer' = [peer EXCEPT !.log = Append(@, Event("write_config", "", <<>>, <<>>, 0)),
                            !.replaced = settings,
                            !.pc = "load"]
    /\ UNCHANGED <<peerWorld, IS_WINDOWS, defaultConfigs, edits, self>>

\* load and read config: what the file holds now, whoever wrote it
PeerLoadConfig ==
    /\ peer.pc = "load"
    /\ peer' = IF ~settings.exists
               THEN [peer EXCEPT !.pc = "done", !.exitCode = 1, !.message = "AssertionError"]
               ELSE [peer EXCEPT !.build_config = settings.config,
                                 !.DOCKER_CONFIG_PATH = docker_config_file(settings.config),
                                 !.repo_branch = settings.branch,
                                 !.BTC_RELEASE_TAG = release_tag(settings.branch),
                                 !.pc = "install"]
    /\ UNCHANGED <<settings, peerWorld, IS_WINDOWS, defaultConfigs, edits, self>>

\* (mutation of PeerInstallCheck: the file is looked at again instead of
\* the answer taken before it was written)
PeerInstallCheck_Rereads ==
    /\ peer.pc = "install"
    /\ IF InstallRefused(settings.exists)
       THEN peer' = [peer EXCEPT !.pc = "done", !.exitCode = 1, !.message = MSG_ALREADY]
       ELSE peer' = [peer EXCEPT !.pc = "install_clone"]
    /\ UNCHANGED <<settings, peerWorld, IS_WINDOWS, defaultConfigs, edits, self>>

\* refuse when a configuration existed, then check port usage.  A port is
\* found open only when containers are there to listen on it; the first
\* port of the profile stands for the one found.
PeerInstallCheck ==
    /\ peer.pc = "install"
    /\ IF InstallRefused(peer.config_existed)
       THEN peer' = [peer EXCEPT !.pc = "done", !.exitCode = 1, !.message = MSG_ALREADY]
       ELSE LET ports == HOST_PORTS_USED[peer.build_config]
                probe(i) == Event("is_port_open", "", <<>>, <<>>, ports[i])
            IN \E taken \in (IF containers THEN BOOLEAN ELSE {FALSE}) :
                  peer' = IF taken
                          THEN [peer EXCEPT !.log = Append(@, probe(1)),
                                            !.pc = "done", !.exitCode = 1,
                                            !.message = MSG_PORT]
                          ELSE [peer EXCEPT !.log = @ \o [ i \in 1..Len(ports) |-> probe(i) ],
                                            !.repos = IF peer.build_config = "base"
                                                      THEN REPOS_BASE ELSE REPOS_FULL,
                                            !.pc = "install_clone"]
    /\ UNCHANGED <<settings, peerWorld, IS_WINDOWS, defaultConfigs, edits, self>>

\* one pass of the clone loop: the next source tree is cloned when its
\* directory is absent; a clone that fails leaves no directory
PeerInstallClone ==
    /\ peer.pc = "install_clone"
    /\ IF peer.repos = <<>>
       THEN /\ peer' = [peer EXCEPT !.pc = "install_pull"]
            /\ UNCHANGED repoDirs
       ELSE LET repo == Head(peer.repos)
            IN IF repo \in repoDirs
               THEN /\ peer' = [peer EXCEPT !.repos = Tail(@)]
                    /\ UNCHANGED repoDirs
               ELSE /\ peer' = [peer EXCEPT !.repos = Tail(@),
                                            !.log = Append(@, GitClone(repo, peer.repo_branch))]
                    /\ \E ok \in (IF repo \in FragileRepos THEN BOOLEAN ELSE {TRUE}) :
                          repoDirs' = IF ok THEN repoDirs \cup {repo, ""} ELSE repoDirs
    /\ UNCHANGED <<settings, activeConfigs, volumes, symlinks, containers, IS_WINDOWS,
                   defaultConfigs, edits, self>>

\* run_compose_cmd of the second process
peer_compose_cmd(verb, mode, target) ==
    [ Event("compose", verb, mode, target, 0)
        EXCEPT !.file = peer.DOCKER_CONFIG_PATH, !.tag = peer.BTC_RELEASE_TAG ]

PeerInstallPull ==
    /\ peer.pc = "install_pull"
    /\ peer' = [peer EXCEPT
                  !.log = IF ~peer.args.no_pull
                          THEN Append(@, peer_compose_cmd("pull", <<"--ignore-pull-failures">>, <<>>))
                          ELSE @,
                  !.pc = "install_configs"]
    /\ UNCHANGED <<settings, peerWorld, IS_WINDOWS, defaultConfigs, edits, self>>

PeerInstallConfigs ==
    /\ peer.pc = "install_configs"
    /\ LET absent == ToCopy(defaultConfigs, activeConfigs)
           created == { ActiveOf(t) : t \in absent }
       IN /\ activeConfigs' =
                [ n \in DOMAIN activeConfigs \cup created |->
                    IF n \in created
                    THEN defaultConfigs[CHOOSE t \in absent : ActiveOf(t) = n]
                    ELSE activeConfigs[n] ]
          /\ peer' = [peer EXCEPT
                        !.log = IF absent # {}
                                THEN Append(@, Event("copy2", "", <<>>, <<>>, Cardinality(absent)))
                                ELSE @,
                        !.pc = "install_symlinks"]
    /\ UNCHANGED <<settings, repoDirs, volumes, symlinks, containers, IS_WINDOWS,
                   defaultConfigs, edits, self>>

PeerInstallSymlinks ==
    /\ peer.pc = "install_symlinks"
    /\ LET new == IF IS_WINDOWS THEN <<>> ELSE Linkable(VOLUMES_USED[peer.build_config])
       IN /\ symlinks' = symlinks \cup Range(new)
          /\ peer' = [peer EXCEPT
                        !.log = @ \o [ i \in 1..Len(new) |->
                                         Event("symlink", "", <<>>, <<new[i]>>, 0) ],
                        !.pc = "install_up"]
    /\ UNCHANGED <<settings, repoDirs, activeConfigs, volumes, containers, IS_WINDOWS,
                   defaultConfigs, edits, self>>

PeerInstallUp ==
    /\ peer.pc = "install_up"
    /\ peer' = [peer EXCEPT !.log = Append(@, peer_compose_cmd("up", <<"-d">>, <<>>)),
                            !.pc = "done", !.exitCode = 0]
    /\ \E ok \in BOOLEAN :
          /\ volumes' = IF ok THEN volumes \cup Range(VOLUMES_USED[peer.build_config])
                        ELSE volumes
          /\ containers' = (ok \/ containers)
    /\ UNCHANGED <<settings, repoDirs, activeConfigs, symlinks, IS_WINDOWS,
                   defaultConfigs, edits, self>>

NextRace ==
    \/ StartRace
    \/ Return
    \/ CheckConfig
    \/ WriteConfig
    \/ LoadConfig
    \/ InstallCheck
    \/ InstallClone
    \/ InstallPull
    \/ InstallConfigs
    \/ InstallSymlinks
    \/ InstallUp
    \/ PeerStart
    \/ PeerReturn
    \/ PeerCheckConfig
    \/ PeerWriteConfig
    \/ PeerLoadConfig
    \/ PeerInstallCheck
    \/ PeerInstallClone
    \/ PeerInstallPull
    \/ PeerInstallConfigs
    \/ PeerInstallSymlinks
    \/ PeerInstallUp

SpecRace == Init /\ [][NextRace]_vars

(* ------------------------------------------------------------------ *)
(* Properties                                                           *)
(* ------------------------------------------------------------------ *)
Done == pc = "done"
Running == pc # "idle"

\* setup_env() refused to run as root
RootRefused == ~IS_WINDOWS /\ euidRoot

\* the invocation found no settings file, or found one
StartedUninstalled == Running /\ ~startSettings.exists
StartedInstalled == Running /\ startSettings.exists

\* the positions of the log that hold an event of the kind, or of the kind and verb
OfKind(kind) == { i \in 1..Len(log) : log[i].kind = kind }
OfVerb(kind, verb) == { i \in OfKind(kind) : log[i].verb = verb }

\* some port of the profile is bound
PortTaken(config) ==
    \E i \in 1..Len(HOST_PORTS_USED[config]) : HOST_PORTS_USED[config][i] \in openPorts

\* C1 (as claimed): every command other than install, invoked while no
\* settings file exists, fails with a precondition error and exit code 1,
\* creates no settings file and issues no compose invocation.
C1_AsClaimed ==
    (StartedUninstalled /\ args.command # "install") =>
        /\ settings = NoSettings
        /\ OfKind("compose") = {}
        /\ Done => (exitCode = 1 /\ message \in {MSG_NO_CONFIG, MSG_ROOT})

\* C1 (amended): every command other than install and docker_clean, invoked
\* while no settings file exists, ends with exit code 1 and the message that
\* the config file does not exist (or that root may not run the script), and
\* never has any effect: no settings file, no compose invocation, nothing.
C1_UninstalledRejects ==
    (StartedUninstalled /\ args.command \notin {"install", "docker_clean"}) =>
        /\ settings = NoSettings
        /\ log = <<>>
        /\ Done => (exitCode = 1 /\ message \in {MSG_NO_CONFIG, MSG_ROOT})

C1_Witness ==
    /\ Done /\ StartedUninstalled
    /\ args.command = "uninstall"
    /\ message = MSG_NO_CONFIG
    /\ exitCode = 1

\* C2: install invoked while a settings file exists ends with exit code 1,
\* the settings keep the values they had whatever profile and branch were
\* given, and nothing is issued: no port probe, clone, copy, symlink or
\* compose invocation.
C2_InstallWhenInstalled ==
    (StartedInstalled /\ args.command = "install") =>
        /\ settings = startSettings
        /\ log = <<>>
        /\ pc \in {"main", "load", "install", "done"}
        /\ Done => exitCode = 1

C2_Witness ==
    /\ Done /\ StartedInstalled
    /\ args.command = "install"
    /\ args.config # startSettings.config
    /\ args.branch # startSettings.branch
    /\ message = MSG_ALREADY
    /\ settings = startSettings

\* C3 (as claimed): an install refused because a port is bound leaves no
\* partial state: the settings file still does not exist.
C3_AsClaimed ==
    (Done /\ StartedUninstalled /\ args.command = "install" /\ message = MSG_PORT) =>
        /\ exitCode = 1
        /\ settings = NoSettings

\* C4: when install is invoked with no settings file and a port of the chosen
\* profile is bound, no clone and no compose invocation is ever issued, and
\* the process ends with exit code 1.
C4_PortBeforeCloneAndCompose ==
    (StartedUninstalled /\ args.command = "install" /\ PortTaken(args.config)) =>
        /\ OfVerb("git", "clone") = {}
        /\ OfKind("compose") = {}
        /\ pc \in {"main", "write", "load", "install", "done"}
        /\ Done => exitCode = 1

C4_Witness ==
    /\ Done /\ StartedUninstalled
    /\ args.command = "install"
    /\ args.config = "base"
    /\ 8332 \in openPorts
    /\ message = MSG_PORT
    /\ exitCode = 1

\* an install that nothing refuses: no settings file, no profile port bound
AcceptedInstall ==
    /\ args.command = "install"
    /\ StartedUninstalled
    /\ ~RootRefused
    /\ ~PortTaken(args.config)

\* C5 (as claimed): the settings are written only by an install accepted in
\* the Uninstalled state and removed only by uninstall, every other
\* invocation (a rejected install among them) leaves them as it found them,
\* and the profile a command reads is the one the settings file holds.
C5_AsClaimed ==
    /\ (Running /\ ~AcceptedInstall /\ args.command # "uninstall") => settings = startSettings
    /\ (Running /\ build_config # "") => (settings.exists /\ build_config = settings.config)

\* C6: uninstall invoked while a settings file exists issues compose down and
\* then deletes the settings file, in that order, and ends with no settings
\* file; the install that follows, with another profile or the same, is
\* accepted when no port of its profile is bound and persists its own
\* profile and branch.
C6_UninstallThenReinstall ==
    /\ (StartedInstalled /\ args.command = "uninstall") =>
          /\ settings \in {startSettings, NoSettings}
          /\ (settings = NoSettings \/ (Done /\ ~RootRefused)) =>
                /\ Done /\ exitCode = 0
                /\ settings = NoSettings
                /\ Len(log) = 2
                /\ log[1].kind = "compose" /\ log[1].verb = "down"
                /\ log[1].file = <<"docker-compose.", startSettings.config, ".yml">>
                /\ log[2].kind = "remove_config"
    /\ (Running /\ args.command = "install" /\ lastRemoved # "") =>
          /\ StartedUninstalled
          /\ (Done /\ ~RootRefused /\ ~PortTaken(args.config)) =>
                /\ exitCode = 0
                /\ settings = [exists |-> TRUE, config |-> args.config, branch |-> args.branch]

C6_Witness ==
    /\ Done
    /\ args.command = "install"
    /\ lastRemoved \notin {"", args.config}
    /\ exitCode = 0
    /\ settings.exists /\ settings.config = args.config

\* every source tree of the installation is checked out
AllCloned == Range(REPOS_BASE) \subseteq repoDirs

\* C7 (as claimed): update with an explicit list that holds a name that is no
\* updatable service ends with exit code 1 before any git operation, any
\* removal of packaging metadata and any restart (stated for an installation
\* with every source tree checked out).
C7_AsClaimed ==
    (StartedInstalled /\ AllCloned /\ ~RootRefused /\ args.command = "update"
       /\ \E i \in 1..Len(args.services) : args.services[i] \notin Range(UPDATE_CHOICES)) =>
        /\ OfKind("git") = {}
        /\ OfKind("rm") = {}
        /\ OfKind("compose") = {}
        /\ Done => exitCode = 1

\* the services an update processes
Requested == IF args.services = <<>> THEN UPDATE_CHOICES ELSE args.services

\* the pulls issued in a source directory, and those issued for a base service
PullsOf(dir) == { i \in OfVerb("git", "pull") : log[i].target = <<dir>> }
PullsFor(service_base) == { i \in OfVerb("git", "pull") : log[i].mode = <<service_base>> }

SourceDirs == Range(REPOS_BASE) \cup {""}

\* C8 (as claimed): an update that runs to its end has performed exactly one
\* pull for the base service of every requested service (stated for an
\* installation with every source tree checked out).
C8_AsClaimed ==
    (Done /\ StartedInstalled /\ AllCloned /\ args.command = "update" /\ exitCode = 0) =>
        \A i \in 1..Len(Requested) :
            Cardinality(PullsFor(replace_testnet(Requested[i]))) = 1

\* C8 (amended): in one update no source directory is pulled twice, also when
\* the mainnet and the testnet variant of a base service are both requested;
\* an update that runs to its end has pulled every directory of every
\* requested base service exactly once if the directory exists (two
\* directories for counterparty) and not at all if it is absent.
C8_PullOncePerDirectory ==
    (Running /\ args.command = "update") =>
        /\ \A d \in SourceDirs : Cardinality(PullsOf(d)) <= 1
        /\ (Done /\ StartedInstalled /\ exitCode = 0) =>
              \A i \in 1..Len(Requested) :
                  \A d \in Range(service_dirs(replace_testnet(Requested[i]))) :
                      Cardinality(PullsOf(d)) = IF d \in repoDirs THEN 1 ELSE 0

C8_Witness ==
    /\ Done /\ exitCode = 0
    /\ args.command = "update"
    /\ args.services = <<"counterparty", "counterparty-testnet">>
    /\ Cardinality(PullsOf("counterparty-lib")) = 1
    /\ "counterparty-cli" \notin repoDirs
    /\ PullsOf("counterparty-cli") = {}

\* the services restarted, in the order of the restarts
RECURSIVE Restarted(_)
Restarted(l) ==
    IF l = <<>> THEN <<>>
    ELSE (IF Head(l).kind = "compose" /\ Head(l).verb = "restart"
          THEN Head(l).target ELSE <<>>) \o Restarted(Tail(l))

\* C9: when update comes to an existing checkout that names no branch, the
\* process ends with exit code 1 right after the branch lookup: that checkout
\* is not pulled, no later service is pulled or restarted, and the services
\* before it stay pulled and, unless --no-restart, restarted.
C9_DetachedStopsUpdate ==
    (Done /\ args.command = "update" /\ message = MSG_DETACHED) =>
        LET k == Len(Requested) - Len(services_to_update)
            last == log[Len(log)]
        IN /\ exitCode = 1
           /\ k >= 1
           /\ last.kind = "git" /\ last.verb = "symbolic-ref"
           /\ last.target[1] \in detached
           /\ last.target[1] \in Range(service_dirs(replace_testnet(Requested[k])))
           /\ PullsOf(last.target[1]) = {}
           /\ \A i \in OfVerb("git", "pull") :
                 \E j \in 1..k : log[i].mode = <<replace_testnet(Requested[j])>>
           /\ Restarted(log) = IF args.no_restart THEN <<>> ELSE SubSeq(Requested, 1, k - 1)
           /\ \A j \in 1..(k - 1) :
                 \A d \in Range(service_dirs(replace_testnet(Requested[j]))) :
                     d \in repoDirs => PullsOf(d) # {}

C9_Witness ==
    /\ Done /\ exitCode = 1
    /\ args.command = "update"
    /\ message = MSG_DETACHED
    /\ ~args.no_restart
    /\ services_to_update # <<>>
    /\ Len(Restarted(log)) >= 2
    /\ OfVerb("git", "pull") # {}

\* the mode the one-shot container of a maintenance verb is given
ModeOf(a) ==
    CASE a.command = "reparse" -> <<"reparse">>
      [] a.command = "rollback" -> <<"rollback", a.block_index>>
      [] a.command = "validate" -> <<"checkdb">>
      [] a.command = "vacuum" -> <<"vacuum">>

\* C10: reparse, rollback, validate and vacuum, invoked on a service while a
\* settings file exists, issue exactly two compose invocations: a stop of
\* the service, then a one-shot run of the same service with the verb's mode
\* (for rollback the mode and the block index).
C10_MaintenanceStopThenRun ==
    (Done /\ StartedInstalled /\ ~RootRefused
       /\ args.command \in {"reparse", "rollback", "validate", "vacuum"}) =>
        /\ exitCode = 0
        /\ Len(log) = 2
        /\ log[1].kind = "compose" /\ log[1].verb = "stop"
        /\ log[1].mode = <<>> /\ log[1].target = <<args.service>>
        /\ log[2].kind = "compose" /\ log[2].verb = "run"
        /\ log[2].mode = ModeOf(args) /\ log[2].target = <<args.service>>

C10_Witness ==
    /\ Done /\ exitCode = 0
    /\ args.command = "rollback"
    /\ args.block_index = "450000"
    /\ args.service = "counterparty"
    /\ Len(log) = 2
    /\ log[2].mode = <<"rollback", "450000">>

\* the source trees a clone was issued for
ClonedRepos == { log[i].target[1] : i \in OfVerb("git", "clone") }

\* C11 (as claimed): after an install of profile P and branch B accepted in
\* the Uninstalled state with every port of P free, the settings file records
\* P and B and every repository of the profile exists in the source directory.
C11_AsClaimed ==
    (Done /\ AcceptedInstall /\ exitCode = 0) =>
        /\ settings = [exists |-> TRUE, config |-> args.config, branch |-> args.branch]
        /\ Range(REPOS_BASE) \subseteq repoDirs

\* C11 (amended): after such an install the settings file records P and B; a
\* clone at branch B has been issued once for every repository whose
\* directory was absent and none for a repository that was present; the
\* directories that existed still exist, and a repository that does not exist
\* afterwards is one whose clone was issued (and failed unnoticed).
C11_InstallRecordsAndClones ==
    (Done /\ AcceptedInstall /\ exitCode = 0) =>
        /\ settings = [exists |-> TRUE, config |-> args.config, branch |-> args.branch]
        /\ ClonedRepos = Range(REPOS_BASE) \ startWorld.repoDirs
        /\ Cardinality(OfVerb("git", "clone")) = Cardinality(ClonedRepos)
        /\ \A i \in OfVerb("git", "clone") : log[i].mode = <<args.branch>>
        /\ startWorld.repoDirs \subseteq repoDirs
        /\ Range(REPOS_BASE) \ repoDirs \subseteq ClonedRepos

C11_Witness ==
    /\ Done /\ AcceptedInstall /\ exitCode = 0
    /\ args.config = "full" /\ args.branch = "develop"
    /\ ClonedRepos = {"counterparty-cli"}
    /\ Range(REPOS_BASE) \subseteq repoDirs
    /\ settings = [exists |-> TRUE, config |-> "full", branch |-> "develop"]

\* C12 (as claimed): an install of base accepted on a host other than Windows
\* where no named volume existed, and whose launch created the volumes, ends
\* with a link in the data directory for each of the three volumes of base.
C12_AsClaimed ==
    (Done /\ AcceptedInstall /\ exitCode = 0 /\ args.config = "base" /\ ~IS_WINDOWS
       /\ startWorld.volumes = {} /\ Range(VOLUMES_USED["base"]) \subseteq volumes) =>
        {"bitcoin", "addrindexrs", "counterparty"} \subseteq symlinks

\* every compose invocation issued so far names the compose file of the
\* profile S records and the release tag of the branch S records
UsesSettings(S) ==
    \A i \in OfKind("compose") :
        /\ log[i].file = <<"docker-compose.", S.config, ".yml">>
        /\ log[i].tag = (IF S.branch = "master" THEN "latest" ELSE S.branch)
        /\ log[i].tag # ""

\* C13: every compose invocation issued between an accepted install of P at
\* branch B and the next uninstall uses docker-compose.P.yml and a release
\* tag that is not empty: 'latest' when B is master, B otherwise.  Stated
\* per invocation: the accepted install records P and B and uses them; every
\* invocation that finds a settings file uses what the file records, and
\* none but uninstall changes the file.
C13_ComposeUsesPersistedProfile ==
    /\ AcceptedInstall =>
          /\ UsesSettings([config |-> args.config, branch |-> args.branch])
          /\ pc \notin {"main", "write"} =>
                settings = [exists |-> TRUE, config |-> args.config, branch |-> args.branch]
    /\ StartedInstalled =>
          /\ UsesSettings(startSettings)
          /\ args.command # "uninstall" => settings = startSettings
          /\ settings \in {startSettings, NoSettings}

C13_Witness ==
    /\ Done /\ StartedInstalled /\ exitCode = 0
    /\ args.command = "restart"
    /\ startSettings = [exists |-> TRUE, config |-> "full", branch |-> "master"]
    /\ Len(log) = 1
    /\ log[1].kind = "compose"
    /\ log[1].file = <<"docker-compose.", "full", ".yml">>
    /\ log[1].tag = "latest"
    /\ AllCloned

\* C14: no invocation overwrites an active config file.  Whatever the verb,
\* every active file the invocation found still exists with the content it
\* had, also when its template holds something else by now; and a file that
\* did not exist is created only by an accepted install, as a copy of its
\* template.
C14_ConfigsNeverOverwritten ==
    Running =>
        /\ \A n \in DOMAIN startWorld.activeConfigs :
              /\ n \in DOMAIN activeConfigs
              /\ activeConfigs[n] = startWorld.activeConfigs[n]
        /\ \A n \in DOMAIN activeConfigs \ DOMAIN startWorld.activeConfigs :
              /\ AcceptedInstall
              /\ \E t \in DOMAIN defaultConfigs :
                    ActiveOf(t) = n /\ activeConfigs[n] = defaultConfigs[t]

\* a re-install after an uninstall, the template having changed in between
C14_Witness ==
    /\ Done /\ AcceptedInstall /\ exitCode = 0
    /\ lastRemoved # ""
    /\ "client.conf" \in DOMAIN startWorld.activeConfigs
    /\ "client.conf.default" \in DOMAIN defaultConfigs
    /\ activeConfigs["client.conf"] = DefaultText
    /\ defaultConfigs["client.conf.default"] = << <<"k", "=", "2">> >>

\* a line of white space only, and a line whose first character that is not
\* white space is '#'
IsBlank(line) == \A j \in 1..Len(line) : line[j] \in WhiteSpace
IsComment(line) ==
    \E j \in 1..Len(line) :
        /\ line[j] = "#"
        /\ \A k \in 1..(j - 1) : line[k] \in WhiteSpace
Counts(line) == ~IsBlank(line) /\ ~IsComment(line)

\* the two texts are the same sequence of lines once blank lines and comment
\* lines are removed
SameSettings(a, b) == SelectSeq(a, Counts) = SelectSeq(b, Counts)

\* C15: configcheck reads and reports, and never fails.  For the i-th config
\* pair of the persisted profile it reports "not found" when the template or
\* the active file is missing and goes on; otherwise it reports OK exactly
\* when the two files are the same sequence of lines once blank lines and
\* lines whose first character that is not white space is '#' are removed,
\* and the differences otherwise.  It leaves every file as it found it and
\* ends with exit code 0, drift or not.
C15_ConfigCheckReadOnly ==
    (Done /\ StartedInstalled /\ ~RootRefused /\ args.command = "configcheck") =>
        LET pairs == CONFIGCHECK_FILES[startSettings.config]
        IN /\ exitCode = 0
           /\ settings = startSettings
           /\ Snapshot = startWorld
           /\ Len(log) = Len(pairs)
           /\ \A i \in 1..Len(pairs) :
                 /\ log[i].kind = "report"
                 /\ log[i].verb = "not found" <=>
                        \/ pairs[i][2] \notin DOMAIN defaultConfigs
                        \/ pairs[i][3] \notin DOMAIN activeConfigs
                 /\ log[i].verb = "OK" <=>
                        /\ pairs[i][2] \in DOMAIN defaultConfigs
                        /\ pairs[i][3] \in DOMAIN activeConfigs
                        /\ SameSettings(defaultConfigs[pairs[i][2]], activeConfigs[pairs[i][3]])
                 /\ log[i].verb \in {"not found", "OK", "differs"}

\* drift in one file, reported, and the next pair still checked
C15_Witness ==
    /\ Done /\ args.command = "configcheck" /\ exitCode = 0
    /\ startSettings.config = "base"
    /\ Len(log) = 8
    /\ log[5].verb = "differs" /\ log[5].target = <<"client.conf">>
    /\ log[6].verb = "OK"
    /\ activeConfigs["client.conf"] = << <<"k", "=", "2">> >>

\* the precondition failures the exit status is said to report
InvalidName ==
    /\ args.command = "update"
    /\ \E i \in 1..Len(args.services) : args.services[i] \notin Range(UPDATE_CHOICES)
DetachedMet ==
    /\ args.command = "update"
    /\ \E i \in 1..Len(Requested) :
          Range(service_dirs(replace_testnet(Requested[i]))) \cap detached # {}
PreconditionFails ==
    \/ RootRefused
    \/ StartedUninstalled /\ args.command # "install"
    \/ StartedInstalled /\ args.command = "install"
    \/ args.command = "install" /\ PortTaken(args.config)
    \/ InvalidName
    \/ DetachedMet

\* C16 (as claimed): a process that ends after a precondition failure
\* (no settings file for a verb other than install, a settings file at
\* install, a bound port at install, a name that is no updatable service, a
\* checkout that names no branch, root) ends with exit code 1; a process of
\* any verb other than docker_clean whose preconditions hold ends with exit
\* code 0, whatever the engine and git did (stated for installations with
\* every source tree checked out).
C16_AsClaimed ==
    (Done /\ (StartedInstalled => AllCloned)) =>
        /\ PreconditionFails => exitCode = 1
        /\ (~PreconditionFails /\ args.command # "docker_clean") => exitCode = 0

\* C17: the registry gives every profile an operator can ask for (base,
\* base_extbtc, full) host ports, data volumes and config pairs, none of them
\* empty; every port, volume and config pair of base is one of full; and the
\* profile a settings file records is always one the registry knows.
C17_ProfileRegistry ==
    /\ \A p \in Profiles :
          /\ p \in DOMAIN HOST_PORTS_USED /\ Len(HOST_PORTS_USED[p]) > 0
          /\ p \in DOMAIN VOLUMES_USED /\ Len(VOLUMES_USED[p]) > 0
          /\ p \in DOMAIN CONFIGCHECK_FILES /\ Len(CONFIGCHECK_FILES[p]) > 0
    /\ Range(HOST_PORTS_USED["base"]) \subseteq Range(HOST_PORTS_USED["full"])
    /\ Range(VOLUMES_USED["base"]) \subseteq Range(VOLUMES_USED["full"])
    /\ Range(CONFIGCHECK_FILES["base"]) \subseteq Range(CONFIGCHECK_FILES["full"])
    /\ settings.exists => settings.config \in Profiles
    /\ build_config # "" => build_config \in Profiles

\* an installation of full, with the volumes the registry lists for it
C17_Witness ==
    /\ Done /\ AcceptedInstall /\ exitCode = 0
    /\ args.config = "full"
    /\ build_config = "full"
    /\ Range(VOLUMES_USED["full"]) \subseteq volumes
    /\ Cardinality(OfKind("is_port_open")) = Len(HOST_PORTS_USED["full"])

C19_AsClaimed ==
    (Done /\ StartedInstalled /\ AllCloned /\ ~RootRefused /\ args.command = "shell") =>
        /\ exitCode = 0
        /\ Len(log) = 1
        /\ \/ log[1].kind = "docker" /\ log[1].verb = "exec" /\ containers
           \/ /\ log[1].kind = "compose" /\ log[1].verb = "run"
              /\ log[1].mode = <<"--no-deps", "--rm", "--entrypoint", "bash">>
        /\ log[1].target = <<args.service>>

\* C20: update takes the requested services in the order of the list.  The
\* only compose invocations it issues are restarts, and none at all with
\* --no-restart; every restart comes after every pull done for the base
\* service of the service restarted; and an update that runs to its end has
\* emptied the list and, without --no-restart, has restarted exactly the
\* requested names, each once per occurrence and in list order: the mainnet
\* and the testnet variant both, also the one whose pull was skipped as a
\* duplicate or whose source directory is absent, after the pull of every
\* directory of its base service that exists.
C20_UpdateRestartsInOrder ==
    (StartedInstalled /\ ~RootRefused /\ args.command = "update") =>
        /\ \A i \in OfKind("compose") : log[i].verb = "restart"
        /\ args.no_restart => OfKind("compose") = {}
        /\ \A i \in OfVerb("compose", "restart") :
              \A j \in PullsFor(replace_testnet(log[i].target[1])) : j < i
        /\ (Done /\ exitCode = 0) =>
              /\ services_to_update = <<>>
              /\ Restarted(log) = IF args.no_restart THEN <<>> ELSE Requested
              /\ \A i \in OfVerb("compose", "restart") :
                    \A d \in Range(service_dirs(replace_testnet(log[i].target[1]))) :
                        d \in repoDirs => \E j \in PullsOf(d) : j < i

\* both variants restarted although one checkout is absent and the second
\* variant's pull is skipped
C20_Witness ==
    /\ Done /\ exitCode = 0 /\ StartedInstalled
    /\ args.command = "update" /\ ~args.no_restart
    /\ args.services = <<"counterparty-testnet", "counterparty">>
    /\ "counterparty-cli" \notin repoDirs
    /\ Restarted(log) = <<"counterparty-testnet", "counterparty">>
    /\ Cardinality(OfVerb("git", "pull")) = 1

\* the branch lookups issued in a source directory
LookupsOf(dir) == { i \in OfVerb("git", "symbolic-ref") : log[i].target = <<dir>> }

\* install has gone past its clone loop
PastClone ==
    \/ pc \in {"install_pull", "install_configs", "install_symlinks", "install_up"}
    \/ Done /\ exitCode = 0

\* C21: whether a repository's path exists is all that decides what is done
\* to it.  Install issues a clone for a repository exactly when its path was
\* absent, and no other git command; update looks up the branch of, and
\* pulls, only paths that exist, every pull following a lookup that named a
\* branch, and an update that runs to its end has looked up and pulled every
\* path of every requested service that exists and none that does not; no
\* other verb issues a git command; and no verb removes a path: the paths an
\* invocation found are still there, and only install adds any.
C21_PathExistenceDecides ==
    Running =>
        /\ startWorld.repoDirs \subseteq repoDirs
        /\ args.command # "install" => repoDirs = startWorld.repoDirs
        /\ args.command = "install" =>
              /\ OfKind("git") = OfVerb("git", "clone")
              /\ ClonedRepos = IF AcceptedInstall /\ PastClone
                               THEN Range(REPOS_BASE) \ startWorld.repoDirs
                               ELSE {}
        /\ args.command = "update" =>
              /\ OfKind("git") = OfVerb("git", "symbolic-ref") \cup OfVerb("git", "pull")
              /\ \A i \in OfKind("git") : log[i].target[1] \in repoDirs
              /\ \A i \in OfVerb("git", "pull") :
                    /\ log[i].target[1] \notin detached
                    /\ \E j \in LookupsOf(log[i].target[1]) : j < i
              /\ (Done /\ exitCode = 0) =>
                    \A n \in 1..Len(Requested) :
                        \A d \in Range(service_dirs(replace_testnet(Requested[n]))) :
                            /\ d \in repoDirs <=> LookupsOf(d) # {}
                            /\ d \in repoDirs <=> PullsOf(d) # {}
        /\ args.command \notin {"install", "update"} => OfKind("git") = {}

\* an update of every service on an installation that lacks one checkout:
\* the one that exists is pulled, the absent one is passed over
C21_Witness ==
    /\ Done /\ exitCode = 0 /\ StartedInstalled
    /\ args.command = "update" /\ args.services = <<>>
    /\ "counterparty-cli" \notin repoDirs
    /\ PullsOf("counterparty-cli") = {} /\ LookupsOf("counterparty-cli") = {}
    /\ PullsOf("counterparty-lib") # {} /\ LookupsOf("counterparty-lib") # {}
    /\ PullsOf("xcp-proxy") # {}

\* the second process has issued an effect of this kind
PeerOfKind(kind) == { i \in 1..Len(peer.log) : peer.log[i].kind = kind }
PeerOfVerb(kind, verb) == { i \in PeerOfKind(kind) : peer.log[i].verb = verb }

\* a process is past the check of the settings file and found none
SawNoFile == pc \notin {"idle", "main"} /\ ~config_existed
PeerSawNoFile == peer.pc \notin {"idle", "main"} /\ ~peer.config_existed

\* C22: nothing ties the check of the settings file to what follows it.  Of
\* two installs that run at once, each one that found no settings file is
\* never refused as already installed, whatever the other has written in the
\* meantime, and has written the file once it is past the write; a process
\* reads back what the file holds, not what it wrote; and when both have
\* written, the file holds the profile of the one that wrote last.
C22_InstalledCheckUnlocked ==
    /\ SawNoFile =>
          /\ message # MSG_ALREADY
          /\ pc # "write" => OfKind("write_config") # {}
    /\ PeerSawNoFile =>
          /\ peer.message # MSG_ALREADY
          /\ peer.pc # "write" => PeerOfKind("write_config") # {}
    /\ (OfKind("write_config") # {} /\ PeerOfKind("write_config") # {}) =>
          settings = IF peer.replaced.exists
                     THEN write_config(peer.args.branch, peer.args.config)
                     ELSE write_config(args.branch, args.config)

\* both installs found no file, both wrote it, the second one over the first
\* one's other profile, both have cloned and both stand before their `up -d`
C22_Witness ==
    /\ pc = "install_up" /\ peer.pc = "install_up"
    /\ ~startSettings.exists /\ ~containers
    /\ SawNoFile /\ PeerSawNoFile
    /\ OfKind("write_config") # {} /\ PeerOfKind("write_config") # {}
    /\ peer.replaced = write_config(args.branch, args.config)
    /\ args.config # peer.args.config
    /\ settings = write_config(peer.args.branch, peer.args.config)
    /\ OfVerb("git", "clone") # {} /\ PeerOfVerb("git", "clone") # {}

\* C23: docker_clean asks nothing of the installed state and leaves it as it
\* is.  Whether a settings file exists or not, the process never comes to the
\* check, the write or the load of the file (its locals stay unset), the file
\* and everything else on disk are as the process found them, no compose
\* command is issued, and the process ends with exit code 1; unless it was
\* refused for running as root, it has then issued the removal of the
\* containers and of the images and printed no refusal.
C23_DockerCleanFrame ==
    (Running /\ args.command = "docker_clean") =>
        /\ pc \in {"main", "done"}
        /\ settings = startSettings
        /\ <<repoDirs, activeConfigs, volumes, symlinks>>
             = <<startWorld.repoDirs, startWorld.activeConfigs, startWorld.volumes,
                 startWorld.symlinks>>
        /\ ~config_existed /\ build_config = "" /\ repo_branch = ""
        /\ OfKind("compose") = {} /\ OfKind("write_config") = {}
        /\ Done =>
              /\ exitCode = 1
              /\ ~RootRefused =>
                    /\ message = ""
                    /\ OfVerb("docker", "rm") # {}
                    /\ OfVerb("docker", "rmi") # {}
                    /\ \A i \in OfVerb("docker", "rm"), j \in OfVerb("docker", "rmi") : i < j

\* docker_clean on an installation whose containers the engine held: they are
\* gone, the settings file is still there, the exit code is 1
C23_Witness ==
    /\ Done /\ args.command = "docker_clean" /\ ~RootRefused
    /\ StartedInstalled /\ settings.exists /\ settings = startSettings
    /\ startWorld.containers /\ ~containers
    /\ exitCode = 1
    /\ OfVerb("docker", "rm") # {} /\ OfVerb("docker", "rmi") # {}

====
